---- MODULE Spec2Model ----
(***************************************************************************)
(* A model of the cloud-monitoring pipeline's core: the in-process event   *)
(* bus (components/streaming/kafka.py), the windowed aggregator            *)
(* (components/streaming/consumer.py), the metrics generator               *)
(* (components/metrics/simulator.py), the anomaly detector                 *)
(* (components/ml/anomaly.py), the remediation engine                      *)
(* (components/remediation/engine.py), the advisory cache                  *)
(* (components/remediation/gpt.py) and the main program (main.py with      *)
(* components/pipeline/kubeflow.py and components/pipeline/ray.py).        *)
(***************************************************************************)
EXTENDS Integers, Sequences, FiniteSets, TLC

(***************************************************************************)
(* Bounds of the model.                                                    *)
(***************************************************************************)
\* number of messages handed to produce() on known topics
MaxMsgs == 2
\* number of messages passed to StreamConsumer's process_message
MaxConsumed == 12
\* largest window size given to register_aggregator
MaxWindow == 5
\* anomaly dicts made by the callers of the remediation engine
MaxObjects == 2
\* get_suggestion calls, and ticks of the advisor's clock
MaxRequests == 2
MaxTicks == 3

(***************************************************************************)
(* Event bus: KafkaSimulator.                                              *)
(***************************************************************************)
VARIABLES
    queues,       \* self.queues: topic -> FIFO queue of messages
    consumers,    \* self.consumers: consumer id -> [topic, group_id, active]
    threads,      \* the worker thread of each consumer id: its topic argument,
                  \* its position in _consume_loop and the message it holds
    pending,      \* consume() calls between thread.start() and registration
    delivered,    \* history: per worker, the callback invocations in order
    producedLog,  \* history: per topic, the messages enqueued in order
    fanout,       \* history: the ids of the messages produced while workers of
                  \* two or more groups were subscribed to their topic
    nextId,       \* history: identity of the next message object
    ret           \* the last value returned by a bus operation

busVars == <<queues, consumers, threads, pending, delivered, producedLog, fanout, nextId, ret>>

(***************************************************************************)
(* Windowed aggregator: StreamConsumer.                                    *)
(***************************************************************************)
VARIABLES
    aggregators,  \* self.aggregators: topic -> [window_size, buffer]
    reducerCalls, \* history: per topic, the lists the reducer was called on
    consumed      \* history: per topic, the messages process_message was given
                  \* since the aggregator was registered

aggVars == <<aggregators, reducerCalls, consumed>>

(***************************************************************************)
(* Metrics generator: CloudMetricsSimulator.                               *)
(***************************************************************************)
VARIABLES
    current_anomalies, \* self.current_anomalies: service -> metric ->
                       \* [pattern, factor, duration]
    data,              \* the batch the last generate_metrics_batch returned:
                       \* <<service, metric>> -> value
    life               \* history: for every entry of the map, its initial
                       \* duration and the number of batches so far that
                       \* carried its pattern value

genVars == <<current_anomalies, data, life>>

(***************************************************************************)
(* Anomaly detector: AnomalyDetector.                                      *)
(***************************************************************************)
VARIABLES
    models,              \* self.models: service -> metric -> the values the
                         \* isolation forest of the pair was fitted on
    training_data,       \* self.training_data: service -> metric -> values
    severity_thresholds, \* self.severity_thresholds, in tenths
    detCall              \* the last call made on the detector: its
                         \* arguments, the tracking call that failed in it
                         \* and what it gave back to its caller

detVars == <<models, training_data, severity_thresholds, detCall>>

(***************************************************************************)
(* Remediation engine: RemediationEngine, and the anomaly dicts its        *)
(* callers hand to it.                                                     *)
(***************************************************************************)
VARIABLES
    use_gpt,   \* self.use_gpt; self.gpt_client is set exactly when it is TRUE
    objects,   \* the anomaly dicts the callers hold, by identity: the i-th
               \* dict made is objects[i]
    remCall    \* the last remediate: the dict it was given and the value
               \* that dict had then, what the advisory API did, and what
               \* the caller got back

remVars == <<use_gpt, objects, remCall>>

(***************************************************************************)
(* Advisory cache: GPTAdvisor.                                             *)
(***************************************************************************)
VARIABLES
    cache,      \* self.cache: cache_key -> [timestamp, result]
    now,        \* the clock, in ticks of half the TTL
    requests,   \* every get_suggestion call so far, in the order they began
    advThreads  \* for each calling thread, the request it is inside of (0
                \* when it is in none)

advVars == <<cache, now, requests, advThreads>>

(***************************************************************************)
(* Main program: run_monitoring_pipeline with its KubeflowPipeline and     *)
(* RaySimulator.                                                           *)
(***************************************************************************)
VARIABLES
    mainPc,       \* where run_monitoring_pipeline is: adding the steps,
                  \* inside pipeline.run(), or in the monitoring loop
    steps,        \* pipeline.steps: [name, function, kwargs, status, result]
    rounds,       \* initialize_data: the rounds of its loop done so far
    initial_data, \* initialize_data: its list
    mainLog       \* history: the last step function or loop iteration: what
                  \* it was given, what ray.get did, the produce calls it
                  \* made in order, and whether it called detect

mainVars == <<mainPc, steps, rounds, initial_data, mainLog>>

vars == <<busVars, aggVars, genVars, detVars, remVars, advVars, mainVars>>

\* the topics given to KafkaSimulator(topics=...)
Topics == {"metrics"}
\* a topic name that was not given at construction
UnknownTopic == "bogus"
TopicInputs == Topics \cup {UnknownTopic}

\* consumer groups, and the consumer ids consume() can make: the id is the
\* group id followed by a fresh uuid prefix, f"{group_id}-{str(uuid.uuid4())[:8]}"
Groups == {"g1", "g2"}
ConsumerIds == {"g1-a", "g2-b"}
GroupOf(cid) == IF cid = "g1-a" THEN "g1" ELSE "g2"
\* an id that consume() never returned
UnknownConsumer == "nobody"

\* a message is a dict; produce() looks only at whether it has a 'timestamp'
\* key ("absent" or "present"; the time of day itself is not modelled)
Timestamps == {"absent", "present"}
Message(id, ts) == [id |-> id, timestamp |-> ts]

NoMessage == [id |-> 0, timestamp |-> "absent"]
NoThread == [topic |-> "", pc |-> "unstarted", message |-> NoMessage]

InitBus ==
    /\ queues = [t \in Topics |-> <<>>]
    /\ consumers = <<>>
    /\ threads = [c \in ConsumerIds |-> NoThread]
    /\ pending = {}
    /\ delivered = [c \in ConsumerIds |-> <<>>]
    /\ producedLog = [t \in Topics |-> <<>>]
    /\ fanout = {}
    /\ nextId = 1
    /\ ret = <<"init", "None">>

\* the consumers registered and active on a topic
Subscribers(topic) ==
    {c \in DOMAIN consumers : consumers[c].topic = topic /\ consumers[c].active}
SubscribedGroups(topic) == {consumers[c].group_id : c \in Subscribers(topic)}

\* produce() as it would be if an unknown topic were created on first use
produce_autocreate(topic, message) ==
    /\ nextId <= MaxMsgs
    /\ queues' = [t \in DOMAIN queues \cup {topic} |->
                     IF t \in DOMAIN queues /\ t # topic THEN queues[t]
                     ELSE IF t \in DOMAIN queues THEN Append(queues[t], message)
                     ELSE <<message>>]
    /\ producedLog' = IF topic \in Topics
                      THEN [producedLog EXCEPT ![topic] = Append(@, message)]
                      ELSE producedLog
    /\ nextId' = nextId + 1
    /\ ret' = <<"produce", "True">>
    /\ UNCHANGED <<consumers, threads, pending, delivered, fanout>>

\* KafkaSimulator.produce(topic, message)
produce(topic, message) ==
    /\ IF topic \notin DOMAIN queues
       THEN /\ ret' = <<"produce", "False">>
            /\ UNCHANGED <<queues, producedLog, fanout, nextId>>
       ELSE LET stamped == IF message.timestamp = "absent"
                           THEN [message EXCEPT !.timestamp = "present"]
                           ELSE message
            IN /\ nextId <= MaxMsgs
               /\ queues' = [queues EXCEPT ![topic] = Append(@, stamped)]
               /\ producedLog' = [producedLog EXCEPT ![topic] = Append(@, stamped)]
               /\ nextId' = nextId + 1
               /\ fanout' = IF Cardinality(SubscribedGroups(topic)) >= 2
                             THEN fanout \cup {message.id} ELSE fanout
               /\ ret' = <<"produce", "True">>
    /\ UNCHANGED <<consumers, threads, pending, delivered>>

\* KafkaSimulator.consume(topic, group_id, callback), up to thread.start():
\* an unknown topic returns None; otherwise the worker thread is started
\* BEFORE the consumer is entered in self.consumers
consume_start(topic, group_id, cid) ==
    /\ threads[cid].pc = "unstarted"
    /\ GroupOf(cid) = group_id
    /\ IF topic \notin DOMAIN queues
       THEN /\ ret' = <<"consume", "None">>
            /\ UNCHANGED <<threads, pending>>
       ELSE /\ threads' = [threads EXCEPT ![cid] =
                              [topic |-> topic, pc |-> "check", message |-> NoMessage]]
            /\ pending' = pending \cup {cid}
            /\ UNCHANGED ret
    /\ UNCHANGED <<queues, consumers, delivered, producedLog, fanout, nextId>>

\* KafkaSimulator.consume, from the registration to the return of the id
consume_register(cid) ==
    /\ cid \in pending
    /\ consumers' = [c \in DOMAIN consumers \cup {cid} |->
                        IF c = cid
                        THEN [topic |-> threads[cid].topic, group_id |-> GroupOf(cid),
                              active |-> TRUE]
                        ELSE consumers[c]]
    /\ pending' = pending \ {cid}
    /\ ret' = <<"consume", cid>>
    /\ UNCHANGED <<queues, threads, delivered, producedLog, fanout, nextId>>

\* self.consumers.get(consumer_id, {}).get('active', False)
IsActive(cid) == cid \in DOMAIN consumers /\ consumers[cid].active

\* the while test as it would be if it looked only at the registration
loop_test_ignoring_active(cid) ==
    /\ threads[cid].pc = "check"
    /\ threads' = [threads EXCEPT ![cid].pc =
                       IF cid \in DOMAIN consumers THEN "get" ELSE "exited"]
    /\ UNCHANGED <<queues, consumers, pending, delivered, producedLog, fanout, nextId, ret>>

\* _consume_loop: the while test
loop_test(cid) ==
    /\ threads[cid].pc = "check"
    /\ threads' = [threads EXCEPT ![cid].pc = IF IsActive(cid) THEN "get" ELSE "exited"]
    /\ UNCHANGED <<queues, consumers, pending, delivered, producedLog, fanout, nextId, ret>>

\* the get as it would be on a LIFO queue
queue_get_lifo(cid) ==
    /\ threads[cid].pc = "get"
    /\ LET q == queues[threads[cid].topic]
       IN IF q = <<>>
          THEN /\ threads' = [threads EXCEPT ![cid].pc = "check"]
               /\ UNCHANGED queues
          ELSE /\ threads' = [threads EXCEPT ![cid].pc = "callback",
                                             ![cid].message = q[Len(q)]]
               /\ queues' = [queues EXCEPT ![threads[cid].topic] =
                                 SubSeq(q, 1, Len(q) - 1)]
    /\ UNCHANGED <<consumers, pending, delivered, producedLog, fanout, nextId, ret>>

\* the get as it would be if it read the head and left it in the queue
queue_get_peek(cid) ==
    /\ threads[cid].pc = "get"
    /\ LET q == queues[threads[cid].topic]
       IN IF q = <<>>
          THEN threads' = [threads EXCEPT ![cid].pc = "check"]
          ELSE threads' = [threads EXCEPT ![cid].pc = "callback",
                                          ![cid].message = Head(q)]
    /\ UNCHANGED <<queues, consumers, pending, delivered, producedLog, fanout, nextId, ret>>

\* _consume_loop: queue_obj.get(block=True, timeout=1.0); an empty queue
\* raises queue.Empty after the timeout, which the loop passes over
queue_get(cid) ==
    /\ threads[cid].pc = "get"
    /\ LET q == queues[threads[cid].topic]
       IN IF q = <<>>
          THEN /\ threads' = [threads EXCEPT ![cid].pc = "check"]
               /\ UNCHANGED queues
          ELSE /\ threads' = [threads EXCEPT ![cid].pc = "callback",
                                             ![cid].message = Head(q)]
               /\ queues' = [queues EXCEPT ![threads[cid].topic] = Tail(q)]
    /\ UNCHANGED <<consumers, pending, delivered, producedLog, fanout, nextId, ret>>

\* the callback step as it would be if an exception ended the loop
callback_call_uncaught(cid, raises) ==
    /\ threads[cid].pc = "callback"
    /\ delivered' = [delivered EXCEPT ![cid] =
                        Append(@, [message |-> threads[cid].message, raised |-> raises])]
    /\ threads' = [threads EXCEPT ![cid].pc = IF raises THEN "exited" ELSE "check",
                                  ![cid].message = NoMessage]
    /\ UNCHANGED <<queues, consumers, pending, producedLog, fanout, nextId, ret>>

\* _consume_loop: callback(message); an exception of the callback is caught
\* by 'except Exception' and logged, and the loop goes on
callback_call(cid, raises) ==
    /\ threads[cid].pc = "callback"
    /\ delivered' = [delivered EXCEPT ![cid] =
                        Append(@, [message |-> threads[cid].message, raised |-> raises])]
    /\ threads' = [threads EXCEPT ![cid].pc = "check", ![cid].message = NoMessage]
    /\ UNCHANGED <<queues, consumers, pending, producedLog, fanout, nextId, ret>>

\* one step of the worker thread of cid
consume_loop(cid) ==
    \/ loop_test(cid)
    \/ queue_get(cid)
    \/ \E raises \in BOOLEAN : callback_call(cid, raises)

\* stop_consumer as it would be if it dropped the consumer's entry
stop_consumer_removing(cid) ==
    /\ IF cid \in DOMAIN consumers
       THEN /\ consumers' = [c \in DOMAIN consumers \ {cid} |-> consumers[c]]
            /\ ret' = <<"stop_consumer", "True">>
       ELSE /\ UNCHANGED consumers
            /\ ret' = <<"stop_consumer", "False">>
    /\ UNCHANGED <<queues, threads, pending, delivered, producedLog, fanout, nextId>>

\* KafkaSimulator.stop_consumer(consumer_id)
stop_consumer(cid) ==
    /\ IF cid \in DOMAIN consumers
       THEN /\ consumers' = [consumers EXCEPT ![cid].active = FALSE]
            /\ ret' = <<"stop_consumer", "True">>
       ELSE /\ UNCHANGED consumers
            /\ ret' = <<"stop_consumer", "False">>
    /\ UNCHANGED <<queues, threads, pending, delivered, producedLog, fanout, nextId>>

\* the bus operations leave the aggregator and the generator alone
Produce ==
    /\ \E t \in TopicInputs, ts \in Timestamps : produce(t, Message(nextId, ts))
    /\ UNCHANGED <<aggVars, genVars, detVars, remVars, advVars, mainVars>>
ConsumeStart ==
    /\ \E t \in TopicInputs, g \in Groups, c \in ConsumerIds : consume_start(t, g, c)
    /\ UNCHANGED <<aggVars, genVars, detVars, remVars, advVars, mainVars>>
ConsumeRegister ==
    /\ \E c \in pending : consume_register(c)
    /\ UNCHANGED <<aggVars, genVars, detVars, remVars, advVars, mainVars>>
WorkerStep(c) ==
    /\ consume_loop(c)
    /\ UNCHANGED <<aggVars, genVars, detVars, remVars, advVars, mainVars>>
Worker == \E c \in ConsumerIds : WorkerStep(c)
StopConsumer ==
    /\ \E c \in ConsumerIds \cup {UnknownConsumer} : stop_consumer(c)
    /\ UNCHANGED <<aggVars, genVars, detVars, remVars, advVars, mainVars>>

NextBus ==
    \/ Produce
    \/ ConsumeStart
    \/ ConsumeRegister
    \/ Worker
    \/ StopConsumer

(***************************************************************************)
(* Windowed aggregator: StreamConsumer.register_aggregator and the         *)
(* process_message callback that _start_consumer hands to the bus.  The    *)
(* topic's single worker calls process_message once per dequeued message,  *)
(* one call after the other.  The registered handlers run first, each in   *)
(* its own try/except; they touch nothing of the aggregator.               *)
(***************************************************************************)
WindowSizes == 1..MaxWindow

InitAgg ==
    /\ aggregators = <<>>
    /\ reducerCalls = [t \in Topics |-> <<>>]
    /\ consumed = [t \in Topics |-> <<>>]

\* StreamConsumer.register_aggregator(topic, window_size, aggregator)
register_aggregator(topic, window_size) ==
    /\ aggregators' = [t \in DOMAIN aggregators \cup {topic} |->
                          IF t = topic
                          THEN [window_size |-> window_size, buffer |-> <<>>]
                          ELSE aggregators[t]]
    /\ reducerCalls' = [reducerCalls EXCEPT ![topic] = <<>>]
    /\ consumed' = [consumed EXCEPT ![topic] = <<>>]

\* process_message as it would be with a window that is full only when the
\* buffer is longer than window_size
process_message_late(topic, message, fails) ==
    /\ topic \in DOMAIN aggregators
    /\ LET aggregator == aggregators[topic]
           buffer == Append(aggregator.buffer, message)
       IN /\ consumed' = [consumed EXCEPT ![topic] = Append(@, message)]
          /\ IF Len(buffer) > aggregator.window_size
             THEN /\ reducerCalls' = [reducerCalls EXCEPT ![topic] =
                                         Append(@, [window |-> buffer, failed |-> fails])]
                  /\ aggregators' = [aggregators EXCEPT ![topic].buffer =
                                        IF fails THEN buffer ELSE <<>>]
             ELSE /\ aggregators' = [aggregators EXCEPT ![topic].buffer = buffer]
                  /\ UNCHANGED reducerCalls

\* process_message(message) of _start_consumer, for a topic with an
\* aggregator: append; on a full window call the reducer, then clear.  A
\* reducer that raises leaves the try block before buffer.clear().
process_message(topic, message, fails) ==
    /\ topic \in DOMAIN aggregators
    /\ LET aggregator == aggregators[topic]
           buffer == Append(aggregator.buffer, message)
       IN /\ consumed' = [consumed EXCEPT ![topic] = Append(@, message)]
          /\ IF Len(buffer) >= aggregator.window_size
             THEN /\ reducerCalls' = [reducerCalls EXCEPT ![topic] =
                                         Append(@, [window |-> buffer, failed |-> fails])]
                  /\ aggregators' = [aggregators EXCEPT ![topic].buffer =
                                        IF fails THEN buffer ELSE <<>>]
             ELSE /\ aggregators' = [aggregators EXCEPT ![topic].buffer = buffer]
                  /\ UNCHANGED reducerCalls

RegisterAggregator ==
    /\ \E t \in Topics, w \in WindowSizes : register_aggregator(t, w)
    /\ UNCHANGED <<busVars, genVars, detVars, remVars, advVars, mainVars>>

ProcessMessage ==
    /\ \E t \in Topics, fails \in BOOLEAN :
          /\ Len(consumed[t]) < MaxConsumed
          /\ process_message(t, Len(consumed[t]) + 1, fails)
    /\ UNCHANGED <<busVars, genVars, detVars, remVars, advVars, mainVars>>

NextAgg ==
    \/ RegisterAggregator
    \/ ProcessMessage

(***************************************************************************)
(* Metrics generator: CloudMetricsSimulator.  Values are kept as integers: *)
(* factors in tenths, values in fortieths (x * (1 + factor/4) with a       *)
(* factor in tenths is x * (40 + factor) / 40).                            *)
(* The batch's shared timestamp is not modelled.                           *)
(***************************************************************************)
\* self.services: service -> metric -> baseline, built from the config
Services == {"api", "db"}
MetricsOf(service) ==
    IF service = "api" THEN {"cpu_usage", "request_count"} ELSE {"error_rate"}
Baseline(service, metric) ==
    IF metric = "cpu_usage" THEN 30 ELSE IF metric = "request_count" THEN 100 ELSE 2

\* self.anomaly_patterns, with all three configured patterns (values * 40)
Patterns == {"sudden_spike", "gradual_increase", "service_degradation"}
PatternValue(pattern, x, factor) ==
    IF pattern = "sudden_spike" THEN x * (40 + 4 * factor)
    ELSE IF pattern = "gradual_increase" THEN x * (40 + factor)
    ELSE IF x > 0 THEN x * (40 - 2 * factor) ELSE x * 40

\* random.uniform(0.5, 1.5) and random.uniform(0.3, 0.7), in tenths
Factors(metric) ==
    IF metric \in {"cpu_usage", "memory_usage", "response_time"}
    THEN {5, 10, 15} ELSE {3, 7}
\* random.randint(3, 7)
MinDuration == 3
MaxDuration == 7
\* random.randint(1, min(3, len(available_metrics)))
MaxAffected == 3
\* random.uniform(-0.05, 0.05), in fortieths
Variations == {-2, 2}

Min(a, b) == IF a < b THEN a ELSE b

\* random.sample(population, k)
Samples(population, k) == {ms \in SUBSET population : Cardinality(ms) = k}

\* one factor per affected metric, each from the range of its metric
FactorDraws(metrics_affected) ==
    {f \in [metrics_affected -> UNION {Factors(m) : m \in metrics_affected}] :
        \A m \in metrics_affected : f[m] \in Factors(m)}

InitGen ==
    /\ current_anomalies = <<>>
    /\ data = <<>>
    /\ life = <<>>

\* the <<service, metric>> entries of an active-anomaly map
Entries(ca) == UNION {{<<sv, m>> : m \in DOMAIN ca[sv]} : sv \in DOMAIN ca}

\* _introduce_anomaly with its random draws given: the service, the affected
\* metrics, the pattern, and a factor and a duration per affected metric
introduce_anomaly(ca, service_name, metrics_affected, pattern, factor, duration) ==
    [sv \in DOMAIN ca \cup {service_name} |->
        IF sv # service_name THEN ca[sv]
        ELSE LET old == IF sv \in DOMAIN ca THEN ca[sv] ELSE <<>>
             IN [m \in DOMAIN old \cup metrics_affected |->
                    IF m \in metrics_affected
                    THEN [pattern |-> pattern, factor |-> factor[m], duration |-> duration[m]]
                    ELSE old[m]]]

\* the duration test as it would be with '< 0' for '<= 0'
Survives_late(duration) == duration - 1 >= 0

\* the duration test of generate_metrics_batch: the entry stays while the
\* decremented counter is above zero
Survives(duration) == duration - 1 > 0

\* the inner loop without the removal of a service left with no entries
after_service_keeping(ca, service_name) ==
    IF service_name \notin DOMAIN ca THEN ca
    ELSE LET kept == {m \in DOMAIN ca[service_name] :
                         Survives(ca[service_name][m].duration)}
         IN [ca EXCEPT ![service_name] =
                [m \in kept |-> [ca[service_name][m] EXCEPT !.duration = @ - 1]]]

\* generate_metrics_batch, the inner loop over the metrics of one selected
\* service: every entry of the service is decremented, the entries that reach
\* zero are deleted, and the service's entry goes with its last metric
after_service(ca, service_name) ==
    IF service_name \notin DOMAIN ca THEN ca
    ELSE LET kept == {m \in DOMAIN ca[service_name] :
                         Survives(ca[service_name][m].duration)}
         IN IF kept = {}
            THEN [sv \in DOMAIN ca \ {service_name} |-> ca[sv]]
            ELSE [ca EXCEPT ![service_name] =
                     [m \in kept |-> [ca[service_name][m] EXCEPT !.duration = @ - 1]]]

RECURSIVE after_services(_, _)
after_services(ca, selected) ==
    IF selected = {} THEN ca
    ELSE LET sv == CHOOSE x \in selected : TRUE
         IN after_services(after_service(ca, sv), selected \ {sv})

\* the pattern value of an entry of the map
EntryValue(ca, e) ==
    PatternValue(ca[e[1]][e[2]].pattern, Baseline(e[1], e[2]), ca[e[1]][e[2]].factor)

\* the value generate_metrics_batch computes for one metric
metric_value(ca, service_name, metric_name, variation) ==
    IF service_name \in DOMAIN ca /\ metric_name \in DOMAIN ca[service_name]
    THEN EntryValue(ca, <<service_name, metric_name>>)
    ELSE Baseline(service_name, metric_name) * (40 + variation)

\* the pairs a batch over the selected services holds
PairsOf(selected) == UNION {{<<sv, m>> : m \in MetricsOf(sv)} : sv \in selected}

\* the rest of generate_metrics_batch once the injection is decided: ca is
\* the map after it, fresh the entries it made
generate_from(ca, fresh, selected) ==
    /\ \E variation \in [PairsOf(selected) \ Entries(ca) -> Variations] :
          data' = [p \in PairsOf(selected) |->
                      metric_value(ca, p[1], p[2],
                                   IF p \in DOMAIN variation THEN variation[p] ELSE 0)]
    /\ current_anomalies' = after_services(ca, selected)
    /\ life' = [e \in Entries(current_anomalies') |->
                    LET before == IF e \in fresh
                                  THEN [initial |-> ca[e[1]][e[2]].duration, carried |-> 0]
                                  ELSE life[e]
                    IN IF e \in DOMAIN data' /\ data'[e] = EntryValue(ca, e)
                       THEN [before EXCEPT !.carried = @ + 1]
                       ELSE before]

\* generate_metrics_batch with an injection whenever the draw allows it,
\* also while entries exist
generate_metrics_batch_unguarded(draw, selected) ==
    IF draw
    THEN \E service_name \in Services, pattern \in Patterns :
           \E k \in 1..Min(MaxAffected, Cardinality(MetricsOf(service_name))) :
             \E metrics_affected \in Samples(MetricsOf(service_name), k) :
               \E factor \in FactorDraws(metrics_affected),
                  duration \in [metrics_affected -> MinDuration..MaxDuration] :
                 generate_from(
                     introduce_anomaly(current_anomalies, service_name,
                                       metrics_affected, pattern, factor, duration),
                     {<<service_name, m>> : m \in metrics_affected}, selected)
    ELSE generate_from(current_anomalies, {}, selected)

\* CloudMetricsSimulator.generate_metrics_batch(num_services): draw says
\* whether random.random() < self.anomaly_probability, selected is the list
\* of services the call generates
generate_metrics_batch(draw, selected) ==
    IF draw /\ current_anomalies = <<>>
    THEN \E service_name \in Services, pattern \in Patterns :
           \E k \in 1..Min(MaxAffected, Cardinality(MetricsOf(service_name))) :
             \E metrics_affected \in Samples(MetricsOf(service_name), k) :
               \E factor \in FactorDraws(metrics_affected),
                  duration \in [metrics_affected -> MinDuration..MaxDuration] :
                 generate_from(
                     introduce_anomaly(current_anomalies, service_name,
                                       metrics_affected, pattern, factor, duration),
                     {<<service_name, m>> : m \in metrics_affected}, selected)
    ELSE generate_from(current_anomalies, {}, selected)

\* the services a call generates: all of them, or a random sample of
\* num_services of them when 0 < num_services < len(services)
Selections(num_services) ==
    IF num_services > 0 /\ num_services < Cardinality(Services)
    THEN {sel \in SUBSET Services : Cardinality(sel) = num_services}
    ELSE {Services}

GenerateMetricsBatch ==
    /\ \E draw \in BOOLEAN, num_services \in 0..Cardinality(Services) :
          \E selected \in Selections(num_services) :
              generate_metrics_batch(draw, selected)
    /\ UNCHANGED <<busVars, aggVars, detVars, remVars, advVars, mainVars>>

NextGen == GenerateMetricsBatch

(***************************************************************************)
(* Anomaly detector: AnomalyDetector.  A sample's value is a whole number  *)
(* and the thresholds are in tenths.  The isolation forest is a library: a *)
(* fitted model is kept as the values it was fitted on, and predict() says *)
(* inlier (1), outlier (-1) or raises, as the oracle of the call has it.   *)
(* The tracking server's own contents (parameters, metrics, artifacts, run *)
(* ids) are not modelled, only which tracking call of a run raises.  The   *)
(* anomalies of one detect are kept as a set.                              *)
(***************************************************************************)
MinSamples == 10

DetPairs == {<<"api", "cpu_usage">>, <<"db", "error_rate">>}
\* df.groupby(['service', 'metric']) yields the groups in key order
GroupOrder == <<(<<"api", "cpu_usage">>), (<<"db", "error_rate">>)>>

Flat(n) == [i \in 1..n |-> 30]
Bimodal(n) == [i \in 1..n |-> IF i % 2 = 1 THEN 27 ELSE 33]
Narrow(n) == [i \in 1..n |-> IF i % 2 = 1 THEN 28 ELSE 32]
\* the groups a train is given: one sample short of the gate; at the gate,
\* with mean 30 and deviation 3; past the gate, with deviation 0 and with
\* mean 30 and deviation 2
GroupInputs ==
    {Bimodal(MinSamples - 1), Bimodal(MinSamples), Flat(MinSamples + 1),
     Narrow(MinSamples + 2)}
\* the latest values a detect is given, and the values a grade is asked for
BatchValues == {21, 60}
DetValues == BatchValues \cup {30, 33, 35, 36}
Batches == UNION {[seen -> BatchValues] : seen \in SUBSET DetPairs}
\* a sample of the list detect is given
Row(p, value, timestamp) ==
    [service |-> p[1], metric |-> p[2], value |-> value, timestamp |-> timestamp]
\* a list with the given latest values: the first pair has an earlier sample
\* of another value, the second pair has one sample, between the two of the
\* first
RowsOf(latest) ==
    LET p1 == GroupOrder[1]
        p2 == GroupOrder[2]
        earlier == IF p1 \in DOMAIN latest
                   THEN <<Row(p1, CHOOSE v \in BatchValues : v # latest[p1], 1)>>
                   ELSE <<>>
        single == IF p2 \in DOMAIN latest THEN <<Row(p2, latest[p2], 2)>> ELSE <<>>
        last == IF p1 \in DOMAIN latest THEN <<Row(p1, latest[p1], 3)>> ELSE <<>>
    IN  earlier \o single \o last
RowLists == {RowsOf(latest) : latest \in Batches}
\* the pairs that have a sample in the list
PairsIn(rows) == {<<rows[i].service, rows[i].metric>> : i \in DOMAIN rows}
Predictions == {"inlier", "outlier", "raises"}
\* ml_config['detection']['severity_thresholds'], in tenths
ConfiguredThresholds == [medium |-> 15, high |-> 25]

NoPair == <<"", "">>
Tracking(at, pair) == [at |-> at, pair |-> pair]
NoFailure == Tracking("none", NoPair)
TrainFailures ==
    {NoFailure, Tracking("start_run", NoPair), Tracking("summary", NoPair)}
        \cup {Tracking(at, p) : at \in {"log_metrics", "log_artifact"}, p \in DetPairs}
\* the construction and the fit of a group's model raising
\* (if_params['random_state'], IsolationForest(...), model.fit)
FitFailures == {Tracking("fit", p) : p \in DetPairs}
DetectFailures ==
    {NoFailure, Tracking("start_run", NoPair), Tracking("log_metrics", NoPair)}

NoCall(op) ==
    [op |-> op, data |-> <<>>, oracle |-> <<>>, fail |-> NoFailure,
     outcome |-> "", anomalies |-> {}]

InitDet ==
    /\ models = <<>>
    /\ training_data = <<>>
    /\ severity_thresholds = ConfiguredThresholds
    /\ detCall = NoCall("init")

\* map[service] = {}
Container(map, service) ==
    [s \in DOMAIN map \cup {service} |-> IF s = service THEN <<>> ELSE map[s]]

\* map[service][metric] = x
Store(map, service, metric, x) ==
    [map EXCEPT ![service] =
        [m \in DOMAIN @ \cup {metric} |-> IF m = metric THEN x ELSE @[m]]]

\* one turn of train's loop over the groups; a call that raises ends the run
\* where it stands.  A model is kept as the values it was fitted on.
train_group(st, p, values, fail) ==
    IF st.raised \/ Len(values) < MinSamples
    THEN st
    ELSE LET service == p[1]
             metric == p[2]
             c == IF service \notin DOMAIN st.models
                  THEN [st EXCEPT !.models = Container(@, service),
                                  !.training_data = Container(@, service)]
                  ELSE st
             stored == [c EXCEPT !.training_data = Store(@, service, metric, values)]
             fitted == [stored EXCEPT !.models = Store(@, service, metric, values)]
         IN  IF fail = Tracking("log_metrics", p)
             THEN [c EXCEPT !.raised = TRUE]
             ELSE IF fail = Tracking("fit", p)
                  THEN [stored EXCEPT !.raised = TRUE]
                  ELSE IF fail = Tracking("log_artifact", p)
                       THEN [fitted EXCEPT !.raised = TRUE]
                       ELSE fitted

RECURSIVE train_groups(_, _, _, _)
train_groups(st, samples, fail, i) ==
    IF i > Len(GroupOrder)
    THEN st
    ELSE train_groups(train_group(st, GroupOrder[i], samples[GroupOrder[i]], fail),
                      samples, fail, i + 1)

\* the body of train, inside its tracking run
train_run(ms, td, samples, fail) ==
    LET start == [models |-> ms, training_data |-> td,
                  raised |-> fail.at = "start_run"]
        done == train_groups(start, samples, fail, 1)
    IN  IF ~done.raised /\ fail.at = "summary"
        THEN [done EXCEPT !.raised = TRUE]
        ELSE done

\* train as its callers have it, under safe_mlflow_tracking: what a tracking
\* call raises is caught there, and the caller gets None
train(samples, fail) ==
    LET end == train_run(models, training_data, samples, fail)
    IN  /\ models' = end.models
        /\ training_data' = end.training_data
        /\ detCall' = [NoCall("train") EXCEPT
                          !.data = samples, !.fail = fail,
                          !.outcome = IF end.raised THEN "None" ELSE "models"]
        /\ UNCHANGED severity_thresholds

RECURSIVE Sum(_)
Sum(values) == IF values = <<>> THEN 0 ELSE Head(values) + Sum(Tail(values))

RECURSIVE SumSq(_)
SumSq(values) ==
    IF values = <<>> THEN 0 ELSE Head(values) * Head(values) + SumSq(Tail(values))

Abs(x) == IF x < 0 THEN -x ELSE x

\* n * (value - mean)
deviation_signed(values, value) == Len(values) * value - Sum(values)

\* n * abs(value - mean), with n the number of training values
deviation(values, value) == Abs(Len(values) * value - Sum(values))

\* (n * np.std(values))^2
spread(values) == Len(values) * SumSq(values) - Sum(values) * Sum(values)

\* z_score > threshold, the threshold in tenths: z_score is 0 when the
\* deviation of the training values is 0 and deviation / sqrt(spread)
\* otherwise
z_score_above(values, value, threshold) ==
    IF spread(values) = 0
    THEN 0 > threshold
    ELSE /\ deviation(values, value) >= 0
         /\ 100 * deviation(values, value) * deviation(values, value)
                > threshold * threshold * spread(values)

\* the grades with both thresholds a tenth lower
calculate_severity_lenient(service, metric, value) ==
    IF service \notin DOMAIN training_data \/ metric \notin DOMAIN training_data[service]
    THEN "medium"
    ELSE LET training_values == training_data[service][metric]
         IN  IF ~z_score_above(training_values, value, severity_thresholds.high - 1)
             THEN IF ~z_score_above(training_values, value, severity_thresholds.medium - 1)
                  THEN "low"
                  ELSE "medium"
             ELSE "high"

calculate_severity(service, metric, value) ==
    IF service \notin DOMAIN training_data \/ metric \notin DOMAIN training_data[service]
    THEN "medium"
    ELSE LET training_values == training_data[service][metric]
         IN  IF z_score_above(training_values, value, severity_thresholds.high)
             THEN "high"
             ELSE IF z_score_above(training_values, value, severity_thresholds.medium)
                  THEN "medium"
                  ELSE "low"

Anomaly(timestamp, service, metric, value, severity) ==
    [timestamp |-> timestamp, service |-> service, metric |-> metric,
     value |-> value, severity |-> severity]

\* df[(df['service'] == service) & (df['metric'] == metric)]
metric_data(rows, p) ==
    SelectSeq(rows, LAMBDA r : r.service = p[1] /\ r.metric = p[2])

\* the row detect scores as it would be if it took the first of the pair
latest_row_first(rows, p) == metric_data(rows, p)[1]

\* metric_data.iloc[-1]
latest_row(rows, p) == metric_data(rows, p)[Len(metric_data(rows, p))]

\* the pairs detect's loop gets to score: those with a model and a sample
scored(rows) == {q \in Entries(models) : metric_data(rows, q) # <<>>}

\* the anomaly dict of a pair predicted an outlier
anomaly_of(rows, p) ==
    Anomaly(latest_row(rows, p).timestamp, p[1], p[2], latest_row(rows, p).value,
            calculate_severity(p[1], p[2], latest_row(rows, p).value))

\* the loop of detect as it would be if a prediction that raises ended it
detected_aborting(rows, oracle) ==
    IF \E q \in scored(rows) : oracle[q] = "raises"
    THEN {}
    ELSE {anomaly_of(rows, p) : p \in {q \in scored(rows) : oracle[q] = "outlier"}}

\* the body of detect, inside its tracking run: the anomalies it collects
\* and the pairs it has a prediction for
detected(rows, oracle) ==
    {anomaly_of(rows, p) : p \in {q \in scored(rows) : oracle[q] = "outlier"}}

predicted(rows, oracle) ==
    {q \in scored(rows) : oracle[q] # "raises"}

\* what detect gives its caller: the list it returns, or the exception of a
\* tracking call
detect_run(batch, oracle, fail) ==
    LET raised == \/ fail.at = "start_run"
                  \/ fail.at = "log_metrics" /\ predicted(batch, oracle) # {}
    IN  [outcome |-> IF raised THEN "raised" ELSE "anomalies",
         anomalies |-> IF raised THEN {} ELSE detected(batch, oracle)]

detect(batch, oracle, fail) ==
    LET end == detect_run(batch, oracle, fail)
    IN  /\ detCall' = [NoCall("detect") EXCEPT
                          !.data = batch, !.oracle = oracle, !.fail = fail,
                          !.outcome = end.outcome,
                          !.anomalies = end.anomalies]
        /\ UNCHANGED <<models, training_data, severity_thresholds>>

Train ==
    /\ \E samples \in [DetPairs -> GroupInputs], fail \in TrainFailures :
          train(samples, fail)
    /\ UNCHANGED <<busVars, aggVars, genVars, remVars, advVars, mainVars>>

Detect ==
    /\ \E rows \in RowLists, fail \in DetectFailures :
          \E oracle \in [PairsIn(rows) -> Predictions] : detect(rows, oracle, fail)
    /\ UNCHANGED <<busVars, aggVars, genVars, remVars, advVars, mainVars>>

\* a train in which the fit of a group's model raises
TrainFitFails ==
    /\ \E samples \in [DetPairs -> GroupInputs], fail \in FitFailures :
          train(samples, fail)
    /\ UNCHANGED <<busVars, aggVars, genVars, remVars, advVars, mainVars>>

NextDet ==
    \/ Train
    \/ Detect

\* sequences of train calls, those whose fit raises among them
NextTrain ==
    \/ Train
    \/ TrainFitFails

(***************************************************************************)
(* Remediation engine: RemediationEngine.  The engine is built with the    *)
(* advisory feature off; __init__ may be run again with another            *)
(* configuration.  A rendered action is kept as the template and the       *)
(* service it was formatted with.  The tracking run of remediate is inside *)
(* its own try/except and leaves no trace in the engine.                   *)
(***************************************************************************)
Severities == {"low", "medium", "high"}

\* remediation_config['actions']: metric -> severity -> template
action_templates ==
    [cpu_usage |-> [medium |-> "Throttle {service}", high |-> "Scale up {service}"]]

\* the anomalies given to remediate: with a template, with none for the
\* severity, with none for the metric; with and without a timestamp
AnomalyInputs ==
    {[service |-> sv, metric |-> k[1], severity |-> k[2], value |-> 60, timestamp |-> ts] :
        sv \in Services, ts \in Timestamps,
        k \in {<<"cpu_usage", "high">>, <<"cpu_usage", "low">>, <<"error_rate", "high">>}}

None == "None"
NoRecord == [anomaly |-> 0, action |-> None, gpt_suggestion |-> None]
NoAnomaly ==
    [service |-> "", metric |-> "", severity |-> "", value |-> 0, timestamp |-> "absent"]
NoRemCall ==
    [op |-> "init", use_gpt |-> FALSE, advisory |-> "", api_calls |-> 0,
     given |-> NoAnomaly, outcome |-> "", record |-> NoRecord]

InitRem ==
    /\ use_gpt = FALSE
    /\ objects = <<>>
    /\ remCall = NoRemCall

\* RemediationEngine.__init__: the feature stays on only when it is
\* configured and the client could be set up
engine_init(configured, client_ok) ==
    /\ use_gpt' = (configured /\ client_ok)
    /\ UNCHANGED <<objects, remCall>>

\* a caller makes an anomaly dict (detect makes them with a timestamp)
new_anomaly(anomaly) ==
    /\ Len(objects) < MaxObjects
    /\ objects' = Append(objects, anomaly)
    /\ UNCHANGED <<use_gpt, remCall>>

\* what KafkaSimulator.produce does to the dict it is given, before it
\* queues it: message['timestamp'] = ... when there is none
produce_stamp(ref) ==
    /\ objects' = [objects EXCEPT ![ref].timestamp = "present"]
    /\ UNCHANGED <<use_gpt, remCall>>

\* _get_gpt_suggestion: the text of the completion, or None when the API
\* call raises; every call of it makes one API call
get_gpt_suggestion(advisory) ==
    IF advisory = "raises" THEN None ELSE "suggestion"

Render(template, service) == [template |-> template, service |-> service]

\* remediate with an advisory failure left uncaught: no record
remediate_blocked(ref, advisory) ==
    LET anomaly == objects[ref]
        metric == anomaly.metric
        severity == anomaly.severity
        found == /\ metric \in DOMAIN action_templates
                 /\ severity \in DOMAIN action_templates[metric]
                 /\ ~(use_gpt /\ advisory = "raises")
        record == [anomaly |-> ref,
                   action |-> Render(action_templates[metric][severity], anomaly.service),
                   gpt_suggestion |-> IF use_gpt THEN get_gpt_suggestion(advisory) ELSE None]
    IN  /\ remCall' = [op |-> "remediate", use_gpt |-> use_gpt, advisory |-> advisory,
                       api_calls |-> IF use_gpt THEN 1 ELSE 0,
                       given |-> anomaly,
                       outcome |-> IF found THEN "record" ELSE "None",
                       record |-> IF found THEN record ELSE NoRecord]
        /\ UNCHANGED <<use_gpt, objects>>

\* remediate(anomaly): the record holds the dict it was given, not a copy
remediate(ref, advisory) ==
    LET anomaly == objects[ref]
        metric == anomaly.metric
        severity == anomaly.severity
        gpt_suggestion == IF use_gpt THEN get_gpt_suggestion(advisory) ELSE None
        found == /\ metric \in DOMAIN action_templates
                 /\ severity \in DOMAIN action_templates[metric]
                 /\ action_templates[metric][severity] # ""
        record == [anomaly |-> ref,
                   action |-> Render(action_templates[metric][severity], anomaly.service),
                   gpt_suggestion |-> gpt_suggestion]
    IN  /\ remCall' = [op |-> "remediate", use_gpt |-> use_gpt, advisory |-> advisory,
                       api_calls |-> IF use_gpt THEN 1 ELSE 0,
                       given |-> anomaly,
                       outcome |-> IF found THEN "record" ELSE "None",
                       record |-> IF found THEN record ELSE NoRecord]
        /\ UNCHANGED <<use_gpt, objects>>

EngineInit ==
    /\ \E configured, client_ok \in BOOLEAN : engine_init(configured, client_ok)
    /\ UNCHANGED <<busVars, aggVars, genVars, detVars, advVars, mainVars>>

NewAnomaly ==
    /\ \E anomaly \in AnomalyInputs : new_anomaly(anomaly)
    /\ UNCHANGED <<busVars, aggVars, genVars, detVars, advVars, mainVars>>

ProduceStamp ==
    /\ \E ref \in 1..Len(objects) : produce_stamp(ref)
    /\ UNCHANGED <<busVars, aggVars, genVars, detVars, advVars, mainVars>>

Remediate ==
    /\ \E ref \in 1..Len(objects), advisory \in {"answers", "raises"} :
          remediate(ref, advisory)
    /\ UNCHANGED <<busVars, aggVars, genVars, detVars, advVars, mainVars>>

NextRem ==
    \/ EngineInit
    \/ NewAnomaly
    \/ ProduceStamp
    \/ Remediate

(***************************************************************************)
(* Advisory cache: GPTAdvisor.get_suggestion, called from several threads. *)
(* A call reads the cache, and when it finds nothing fresh there it makes  *)
(* the API call and stores what it got; other calls may run in between.    *)
(* The advisor is built with an API key.  The suggestion an API call gives *)
(* is named by the number of the request that made it.                     *)
(***************************************************************************)
cache_ttl == 3600
TickSeconds == cache_ttl \div 2

openai_client == TRUE
CacheKeys == {"api_cpu_usage_high", "db_error_rate_low"}
AdvisorThreads == {"t1", "t2"}

Failure == [success |-> FALSE, suggestion |-> 0]
Success(i) == [success |-> TRUE, suggestion |-> i]
Request(key, at, fresh, done, result) ==
    [key |-> key, at |-> at, called |-> fresh, done |-> done, result |-> result]

InitAdv ==
    /\ cache = <<>>
    /\ now = 0
    /\ requests = <<>>
    /\ advThreads = [t \in AdvisorThreads |-> 0]

\* get_suggestion up to the cache test
get_suggestion_lookup(t, cache_key) ==
    /\ advThreads[t] = 0
    /\ Len(requests) < MaxRequests
    /\ IF ~openai_client
       THEN /\ requests' = Append(requests, Request(cache_key, now, FALSE, TRUE, Failure))
            /\ UNCHANGED advThreads
       ELSE IF /\ cache_key \in DOMAIN cache
               /\ (now - cache[cache_key].timestamp) * TickSeconds < cache_ttl
            THEN /\ requests' = Append(requests,
                        Request(cache_key, now, FALSE, TRUE, cache[cache_key].result))
                 /\ UNCHANGED advThreads
            ELSE /\ requests' = Append(requests, Request(cache_key, now, FALSE, FALSE, Failure))
                 /\ advThreads' = [advThreads EXCEPT ![t] = Len(requests) + 1]
    /\ UNCHANGED <<cache, now>>

\* get_suggestion from the API call on: only an answer is cached
get_suggestion_call(t, answers) ==
    /\ advThreads[t] # 0
    /\ LET i == advThreads[t]
           result == IF answers THEN Success(i) ELSE Failure
       IN  /\ requests' = [requests EXCEPT ![i].called = TRUE, ![i].done = TRUE,
                                           ![i].result = result]
           /\ cache' = IF answers
                       THEN [k \in DOMAIN cache \cup {requests[i].key} |->
                                IF k = requests[i].key
                                THEN [timestamp |-> now, result |-> result]
                                ELSE cache[k]]
                       ELSE cache
    /\ advThreads' = [advThreads EXCEPT ![t] = 0]
    /\ UNCHANGED now

GetSuggestionLookup ==
    /\ \E t \in AdvisorThreads, cache_key \in CacheKeys : get_suggestion_lookup(t, cache_key)
    /\ UNCHANGED <<busVars, aggVars, genVars, detVars, remVars, mainVars>>

GetSuggestionCall ==
    /\ \E t \in AdvisorThreads, answers \in BOOLEAN : get_suggestion_call(t, answers)
    /\ UNCHANGED <<busVars, aggVars, genVars, detVars, remVars, mainVars>>

Tick ==
    /\ now < MaxTicks
    /\ now' = now + 1
    /\ UNCHANGED <<cache, requests, advThreads>>
    /\ UNCHANGED <<busVars, aggVars, genVars, detVars, remVars, mainVars>>

NextAdv ==
    \/ GetSuggestionLookup
    \/ GetSuggestionCall
    \/ Tick

(***************************************************************************)
(* Main program: main.py run_monitoring_pipeline, pipeline/kubeflow.py and *)
(* pipeline/ray.py.  The program is one thread; a step function and a loop *)
(* iteration are one step each, a round of initialize_data is one step.    *)
(* Python values that pass through the pipeline are kept with their kind.  *)
(* Steps are numbered from 1 (steps[0] of the program is steps[1] here).   *)
(* The consumers that start_kafka_consumers starts are those of the event  *)
(* bus above; here only the produce calls of the loop are recorded.  The   *)
(* metric collectors and the sleeps are not modelled.                      *)
(***************************************************************************)
\* range(20) of initialize_data, scaled down
InitRounds == 3

PyNone == [is |-> "None", list |-> <<>>, index |-> 0]
PyList(l) == [is |-> "list", list |-> l, index |-> 0]
PyObject(name) == [is |-> name, list |-> <<>>, index |-> 0]
\* the string 'steps[i][result]'
PyRef(i) == [is |-> "ref", list |-> <<>>, index |-> i]

NoLog ==
    [op |-> "init", received |-> PyNone, batch |-> <<>>, raised |-> FALSE,
     produced |-> <<>>, detect_called |-> FALSE]

InitMain ==
    /\ mainPc = "add_steps"
    /\ steps = <<>>
    /\ rounds = 0
    /\ initial_data = <<>>
    /\ mainLog = NoLog

\* the list generate_metrics_batch returns, from the batch as the generator
\* above keeps it
RECURSIVE ListOf(_)
ListOf(batch) ==
    IF DOMAIN batch = {}
    THEN <<>>
    ELSE LET p == CHOOSE q \in DOMAIN batch : TRUE
         IN  <<Row(p, batch[p], 0)>> \o ListOf([q \in DOMAIN batch \ {p} |-> batch[q]])

RECURSIVE ListOfSet(_)
ListOfSet(set) ==
    IF set = {}
    THEN <<>>
    ELSE LET x == CHOOSE y \in set : TRUE IN <<x>> \o ListOfSet(set \ {x})

\* RaySimulator.workers: entries are made by the wrapper of remote() alone,
\* and the program never calls remote()
ray_workers == <<>>

\* RaySimulator.get(worker_id): self.workers.get(worker_id) hashes its
\* argument, and a list is unhashable
ray_get(worker_id, is_list) ==
    IF is_list
    THEN [raised |-> TRUE, error |-> "TypeError", result |-> <<>>]
    ELSE IF worker_id \notin DOMAIN ray_workers
         THEN [raised |-> TRUE, error |-> "ValueError", result |-> <<>>]
         ELSE [raised |-> FALSE, error |-> "", result |-> ray_workers[worker_id].result]

\* KubeflowPipeline.add_step(step_name, function, **kwargs)
add_step(step_name, function, kwargs) ==
    steps' = Append(steps, [name |-> step_name, function |-> function,
                            kwargs |-> kwargs, status |-> "Pending",
                            result |-> PyNone])

\* run(): the arguments of step i, a reference to the result of an earlier
\* step replaced by that result
step_kwargs(i) ==
    [k \in DOMAIN steps[i].kwargs |->
        LET value == steps[i].kwargs[k]
        IN  IF value.is = "ref" /\ value.index < i
            THEN steps[value.index].result
            ELSE value]

\* run(): step i completed with a result
step_completed(i, result) ==
    steps' = [steps EXCEPT ![i].status = "Completed", ![i].result = result]

\* pipeline.add_step("Initialize Data", initialize_data)
AddInitializeData ==
    /\ mainPc = "add_steps" /\ Len(steps) = 0
    /\ add_step("Initialize Data", "initialize_data", <<>>)
    /\ UNCHANGED <<mainPc, rounds, initial_data, mainLog>>
    /\ UNCHANGED <<busVars, aggVars, genVars, detVars, remVars, advVars>>

\* pipeline.add_step("Train Models", train_models,
\*                   data=pipeline.steps[0]['result']): the keyword argument
\* is the value the result has when the step is added
AddTrainModels ==
    /\ mainPc = "add_steps" /\ Len(steps) = 1
    /\ add_step("Train Models", "train_models", [data |-> steps[1].result])
    /\ UNCHANGED <<mainPc, rounds, initial_data, mainLog>>
    /\ UNCHANGED <<busVars, aggVars, genVars, detVars, remVars, advVars>>

\* pipeline.add_step("Start Kafka Consumers", start_kafka_consumers), and
\* pipeline.run() begins
AddStartConsumers ==
    /\ mainPc = "add_steps" /\ Len(steps) = 2
    /\ add_step("Start Kafka Consumers", "start_kafka_consumers", <<>>)
    /\ mainPc' = "run"
    /\ UNCHANGED <<rounds, initial_data, mainLog>>
    /\ UNCHANGED <<busVars, aggVars, genVars, detVars, remVars, advVars>>

\* initialize_data, one round of its loop: an exception of ray.get is
\* caught in the round and the list is left as it is
InitializeRound ==
    /\ mainPc = "run" /\ steps[1].status \in {"Pending", "Running"}
    /\ rounds < InitRounds
    /\ \E draw \in BOOLEAN : generate_metrics_batch(draw, Services)
    /\ LET batch_id == ListOf(data')
           got == ray_get(batch_id, TRUE)
       IN  /\ initial_data' = IF got.raised THEN initial_data
                              ELSE initial_data \o got.result
           /\ mainLog' = [NoLog EXCEPT !.op = "initialize_round", !.batch = batch_id,
                                       !.raised = got.raised]
    /\ rounds' = rounds + 1
    /\ steps' = [steps EXCEPT ![1].status = "Running"]
    /\ UNCHANGED mainPc
    /\ UNCHANGED <<busVars, aggVars, detVars, remVars, advVars>>

\* initialize_data returns its list
InitializeReturn ==
    /\ mainPc = "run" /\ steps[1].status \in {"Pending", "Running"}
    /\ rounds = InitRounds
    /\ step_completed(1, PyList(initial_data))
    /\ mainLog' = [NoLog EXCEPT !.op = "initialize_data"]
    /\ UNCHANGED <<mainPc, rounds, initial_data>>
    /\ UNCHANGED <<busVars, aggVars, genVars, detVars, remVars, advVars>>

\* the groups of a list of samples
GroupsOf(list) ==
    [p \in DetPairs |->
        LET group == metric_data(list, p)
        IN  [i \in 1..Len(group) |-> group[i].value]]

\* train_models(data): detector.train(data).  With None, len(df) raises a
\* TypeError, and with an empty list groupby raises a KeyError; either is
\* caught by safe_mlflow_tracking, and train_models returns the detector
train_models(value) ==
    IF value.is = "list" /\ value.list # <<>>
    THEN train(GroupsOf(value.list), NoFailure)
    ELSE UNCHANGED detVars

TrainModels ==
    /\ mainPc = "run"
    /\ steps[1].status = "Completed" /\ steps[2].status = "Pending"
    /\ train_models(step_kwargs(2).data)
    /\ step_completed(2, PyObject("detector"))
    /\ mainLog' = [NoLog EXCEPT !.op = "train_models", !.received = step_kwargs(2).data]
    /\ UNCHANGED <<mainPc, rounds, initial_data>>
    /\ UNCHANGED <<busVars, aggVars, genVars, remVars, advVars>>

\* start_kafka_consumers returns the consumer ids; run() returns, and the
\* program goes on to its loop
StartKafkaConsumers ==
    /\ mainPc = "run"
    /\ steps[2].status = "Completed" /\ steps[3].status = "Pending"
    /\ step_completed(3, PyObject("consumer_ids"))
    /\ mainPc' = "loop"
    /\ mainLog' = [NoLog EXCEPT !.op = "start_kafka_consumers"]
    /\ UNCHANGED <<rounds, initial_data>>
    /\ UNCHANGED <<busVars, aggVars, genVars, detVars, remVars, advVars>>

\* the produce calls of one iteration whose ray.get returned: every sample
\* to 'metrics', then every anomaly to 'anomalies', then the record of
\* every anomaly remediate has a template for to 'remediation'
produced_by(batch_data, new_anomalies) ==
    LET found == SelectSeq(new_anomalies,
                     LAMBDA a : /\ a.metric \in DOMAIN action_templates
                                /\ a.severity \in DOMAIN action_templates[a.metric])
    IN  [i \in 1..Len(batch_data) |-> <<"metrics", batch_data[i]>>]
            \o [i \in 1..Len(new_anomalies) |-> <<"anomalies", new_anomalies[i]>>]
            \o [i \in 1..Len(found) |->
                   <<"remediation",
                     [anomaly |-> found[i],
                      action |-> Render(action_templates[found[i].metric][found[i].severity],
                                        found[i].service)]>>]

\* one iteration of the monitoring loop: whatever raises in it is caught at
\* the end of the iteration and logged
LoopIteration ==
    /\ mainPc = "loop"
    /\ \E draw \in BOOLEAN : generate_metrics_batch(draw, Services)
    /\ LET batch_id == ListOf(data')
           got == ray_get(batch_id, TRUE)
       IN  IF got.raised \/ got.result = <<>>
           THEN mainLog' = [NoLog EXCEPT !.op = "iteration", !.batch = batch_id,
                                         !.raised = got.raised]
           ELSE \E oracle \in [PairsIn(got.result) -> Predictions] :
                   mainLog' = [NoLog EXCEPT
                       !.op = "iteration", !.batch = batch_id,
                       !.detect_called = TRUE,
                       !.produced = produced_by(got.result,
                                        ListOfSet(detected(got.result, oracle)))]
    /\ UNCHANGED <<mainPc, steps, rounds, initial_data>>
    /\ UNCHANGED <<busVars, aggVars, detVars, remVars, advVars>>

NextMain ==
    \/ AddInitializeData
    \/ AddTrainModels
    \/ AddStartConsumers
    \/ InitializeRound
    \/ InitializeReturn
    \/ TrainModels
    \/ StartKafkaConsumers
    \/ LoopIteration

Init == InitBus /\ InitAgg /\ InitGen /\ InitDet /\ InitRem /\ InitAdv /\ InitMain

SpecBus == Init /\ [][NextBus]_vars

SpecAgg == Init /\ [][NextAgg]_vars

SpecGen == Init /\ [][NextGen]_vars

SpecDet == Init /\ [][NextDet]_vars
SpecTrain == Init /\ [][NextTrain]_vars

SpecRem == Init /\ [][NextRem]_vars

SpecAdv == Init /\ [][NextAdv]_vars

SpecMain == Init /\ [][NextMain]_vars

\* every started worker thread is scheduled again and again
FairBus == SpecBus /\ \A c \in ConsumerIds : WF_vars(WorkerStep(c))

(***************************************************************************)
(* Properties of the event bus.                                            *)
(***************************************************************************)
IsPrefix(s, t) == Len(s) <= Len(t) /\ SubSeq(t, 1, Len(s)) = s

\* the worker threads started on a topic
WorkersOn(topic) ==
    {c \in ConsumerIds : threads[c].pc # "unstarted" /\ threads[c].topic = topic}

\* the messages a worker's callback was invoked on, in order
Invocations(cid) == [i \in 1..Len(delivered[cid]) |-> delivered[cid][i].message]
DeliveredIds(cid) == {delivered[cid][i].message.id : i \in 1..Len(delivered[cid])}
HasRaised(cid) == \E i \in 1..Len(delivered[cid]) : delivered[cid][i].raised
Queued(id, topic) == \E i \in 1..Len(queues[topic]) : queues[topic][i].id = id
Running(cid) == threads[cid].pc \in {"check", "get", "callback"}

\* C1: with one worker on a topic, the callback is invoked on the topic's
\* messages in the order in which they were produced, none skipped, none
\* repeated: the invocations are a prefix of the produced sequence, and
\* together with the message in hand and the queue they are all of it.
C1_BusOrdering ==
    \A t \in Topics, c \in ConsumerIds :
        WorkersOn(t) = {c} =>
            /\ IsPrefix(Invocations(c), producedLog[t])
            /\ Len(Invocations(c)) + Len(queues[t])
                   + (IF threads[c].pc = "callback" THEN 1 ELSE 0) = Len(producedLog[t])

C1_Witness ==
    \E t \in Topics, c \in ConsumerIds :
        WorkersOn(t) = {c} /\ Len(delivered[c]) >= 2

\* C2: the topic set stays the one given at construction, and a produce() to
\* a topic outside it returns False and changes no queue and nothing else of
\* the bus.
C2_UnknownTopicRejected ==
    /\ [](DOMAIN queues = Topics)
    /\ [][\A ts \in Timestamps :
             produce(UnknownTopic, Message(nextId, ts)) =>
                 /\ ret' = <<"produce", "False">>
                 /\ UNCHANGED <<queues, producedLog, consumers, threads, nextId>>]_vars

C2_Witness ==
    /\ ret = <<"produce", "False">>
    /\ \E t \in Topics : Len(queues[t]) >= 2

\* C3 (as claimed): a consumer that consume() has registered and that nobody
\* has stopped has a worker that is still in its loop.
C3_WorkerRunsUntilStopped ==
    \A c \in DOMAIN consumers : consumers[c].active => Running(c)

\* C4 (as claimed): a message produced while workers of two groups were
\* subscribed reaches the callback of each of them; once the topic queue is
\* drained and no callback is in flight, every subscribed worker that is
\* still active and running has been handed it.
C4_EveryGroupGetsEveryMessage ==
    \A t \in Topics :
        (queues[t] = <<>> /\ \A c \in WorkersOn(t) : threads[c].pc # "callback") =>
            \A c \in Subscribers(t) :
                Running(c) => \A i \in 1..Len(producedLog[t]) :
                    producedLog[t][i].id \in fanout => producedLog[t][i].id \in DeliveredIds(c)

\* C5: a worker whose callback raised is not stopped by that: while its
\* consumer is active it is still in its loop, and a message waiting in its
\* topic's queue is passed to a callback unless the consumer is stopped.
C5_RaiseDoesNotStopWorker ==
    /\ [](\A c \in ConsumerIds : (HasRaised(c) /\ IsActive(c)) => Running(c))
    /\ \A c \in ConsumerIds, id \in 1..MaxMsgs :
          (HasRaised(c) /\ Queued(id, threads[c].topic))
              ~> (~IsActive(c) \/ \E w \in ConsumerIds : id \in DeliveredIds(w))

C5_Witness ==
    \E c \in ConsumerIds :
        /\ Len(delivered[c]) >= 2
        /\ delivered[c][1].raised
        /\ IsActive(c)

\* C6: a registered consumer that stop_consumer() has made inactive has a
\* worker that eventually leaves its loop, whether or not anything is
\* produced; and stop_consumer() of an id that is not registered returns
\* False and changes no consumer and no worker.
C6_StopTerminates ==
    /\ \A c \in ConsumerIds :
          (c \in DOMAIN consumers /\ ~consumers[c].active) ~> (threads[c].pc = "exited")
    /\ [][\A c \in ConsumerIds \cup {UnknownConsumer} :
             (c \notin DOMAIN consumers /\ stop_consumer(c)) =>
                 /\ ret' = <<"stop_consumer", "False">>
                 /\ UNCHANGED <<consumers, threads, queues>>]_vars

C6_Witness ==
    \E c \in DOMAIN consumers :
        /\ ~consumers[c].active
        /\ threads[c].pc = "exited"
        /\ delivered[c] # <<>>
        /\ queues[consumers[c].topic] = <<>>

\* C27: with any number of workers on a topic, no message is passed to a
\* callback twice, by one worker or by two; a message a worker holds has
\* not been passed to any callback.
C27_AtMostOnceDelivery ==
    /\ \A c1, c2 \in ConsumerIds :
          \A i \in 1..Len(delivered[c1]), j \in 1..Len(delivered[c2]) :
              delivered[c1][i].message.id = delivered[c2][j].message.id
                  => c1 = c2 /\ i = j
    /\ \A c1, c2 \in ConsumerIds :
          threads[c1].pc = "callback" => threads[c1].message.id \notin DeliveredIds(c2)

\* two workers on one topic, each of which was handed a message
C27_Witness ==
    \E c1, c2 \in ConsumerIds :
        /\ c1 # c2
        /\ threads[c1].topic = threads[c2].topic
        /\ delivered[c1] # <<>>
        /\ delivered[c2] # <<>>

\* C28: a consumer that stop_consumer() has stopped stays registered and
\* inactive; its worker passes on at most the message it holds or gets in
\* the poll it is in, after which its next loop test ends it, for good.
C28_StopBoundsDelivery ==
    /\ [](ret = <<"stop_consumer", "True">> =>
            \E c \in DOMAIN consumers : ~consumers[c].active)
    /\ [][\A c \in DOMAIN consumers :
            /\ c \in DOMAIN consumers'
            /\ ~consumers[c].active => ~consumers'[c].active
            /\ (~consumers[c].active /\ Len(delivered'[c]) > Len(delivered[c]))
                  => /\ Len(delivered'[c]) = Len(delivered[c]) + 1
                     /\ threads'[c].pc = "check"
            /\ (~consumers[c].active /\ threads[c].pc = "check"
                    /\ threads'[c] # threads[c])
                  => threads'[c].pc = "exited"
            /\ threads[c].pc = "exited" => threads'[c].pc = "exited"]_vars
    /\ \A c \in ConsumerIds :
          (c \in DOMAIN consumers /\ ~consumers[c].active /\ threads[c].pc = "callback")
              ~> (threads[c].pc = "exited" /\ c \in DOMAIN consumers /\ ~IsActive(c))

\* a worker that holds a message when its consumer has been stopped
C28_Witness ==
    \E c \in DOMAIN consumers :
        /\ ~consumers[c].active
        /\ threads[c].pc = "callback"
        /\ delivered[c] # <<>>

(***************************************************************************)
(* Properties of the windowed aggregator.                                  *)
(***************************************************************************)
NoReducerFailure(topic) ==
    \A i \in 1..Len(reducerCalls[topic]) : ~reducerCalls[topic][i].failed

\* C7: with a reducer that has not failed, after n messages the reducer has
\* been called n \div w times, the i-th time on messages (i-1)*w+1 .. i*w,
\* and the last n % w messages are in the buffer.
C7_TumblingWindow ==
    \A t \in DOMAIN aggregators :
        NoReducerFailure(t) =>
            LET w == aggregators[t].window_size
                n == Len(consumed[t])
                calls == reducerCalls[t]
            IN /\ Len(calls) = n \div w
               /\ \A i \in 1..Len(calls) :
                     calls[i].window = SubSeq(consumed[t], (i - 1) * w + 1, i * w)
               /\ aggregators[t].buffer = SubSeq(consumed[t], n - (n % w) + 1, n)

\* window size 5 fed 12 messages: two calls, 2 buffered
C7_Witness ==
    \E t \in DOMAIN aggregators :
        /\ NoReducerFailure(t)
        /\ aggregators[t].window_size = 5
        /\ Len(consumed[t]) = 12
        /\ Len(reducerCalls[t]) = 2
        /\ Len(aggregators[t].buffer) = 2

\* C8 (as claimed): the buffer is cleared also when the reducer raises, so
\* it never holds more than window_size messages and no message is in two of
\* the lists the reducer was called on.
C8_BufferClearedWhenReducerRaises ==
    \A t \in DOMAIN aggregators :
        /\ Len(aggregators[t].buffer) <= aggregators[t].window_size
        /\ \A i, j \in 1..Len(reducerCalls[t]) :
              i # j => \A k \in 1..Len(reducerCalls[t][i].window) :
                  \A l \in 1..Len(reducerCalls[t][j].window) :
                      reducerCalls[t][i].window[k] # reducerCalls[t][j].window[l]

(***************************************************************************)
(* Properties of the metrics generator.                                    *)
(***************************************************************************)
NormalValues(p) == {Baseline(p[1], p[2]) * (40 + v) : v \in Variations}

\* C9 (as claimed): after every generate_metrics_batch the active-anomaly
\* map holds 0 or 1 (service, metric) entries.
C9_AtMostOneEntry == Cardinality(Entries(current_anomalies)) <= 1

\* C9 (amended): after every generate_metrics_batch the active-anomaly map
\* holds the entries of at most one service.
C9_AtMostOneService ==
    Cardinality({e[1] : e \in Entries(current_anomalies)}) <= 1

C9_Witness ==
    /\ Cardinality(Entries(current_anomalies)) = 2
    /\ DOMAIN data = PairsOf(Services)

\* C10: an entry made with duration d carries its pattern value in the
\* batches that generate its service and in no others, is there with a
\* counter of d less the batches that carried it (never below 1), and goes
\* in the d-th such batch; a batch without its service leaves the counter.
C10_InjectionLifecycle ==
    /\ [](\A e \in Entries(current_anomalies) :
            /\ current_anomalies[e[1]][e[2]].duration >= 1
            /\ current_anomalies[e[1]][e[2]].duration + life[e].carried = life[e].initial)
    /\ [][\A e \in Entries(current_anomalies) :
            IF e \in Entries(current_anomalies')
            THEN IF e \in DOMAIN data'
                 THEN /\ data'[e] = EntryValue(current_anomalies, e)
                      /\ current_anomalies'[e[1]][e[2]].duration
                            = current_anomalies[e[1]][e[2]].duration - 1
                 ELSE current_anomalies'[e[1]][e[2]] = current_anomalies[e[1]][e[2]]
            ELSE /\ e \in DOMAIN data'
                 /\ data'[e] = EntryValue(current_anomalies, e)
                 /\ life[e].carried + 1 = life[e].initial]_vars

\* the batch that deleted the last entry: the map is empty and the batch
\* still carries a pattern value
C10_Witness ==
    /\ current_anomalies = <<>>
    /\ \E p \in DOMAIN data : data[p] \notin NormalValues(p)

\* C19: entries are made only by a batch that starts with the empty map,
\* so the entries there at one time were all made by one injection: they
\* belong to one service and carry one pattern kind.
C19_InjectionsSuppressed ==
    /\ [](\A e1, e2 \in Entries(current_anomalies) :
            /\ e1[1] = e2[1]
            /\ current_anomalies[e1[1]][e1[2]].pattern
                  = current_anomalies[e2[1]][e2[2]].pattern)
    /\ [][\A e \in Entries(current_anomalies') :
            IF e \in Entries(current_anomalies)
            THEN life'[e].initial = life[e].initial
            ELSE current_anomalies = <<>>]_vars

\* two entries of one injection, met again by a later batch
C19_Witness ==
    /\ Cardinality(Entries(current_anomalies)) >= 2
    /\ \A e \in Entries(current_anomalies) : life[e].carried >= 2

\* C30: after every generate_metrics_batch, every service of the map has
\* at least one entry, and every entry is of a metric of its service with a
\* count from 1 to 7: entries at zero and emptied services are gone.
C30_WellFormedMap ==
    \A sv \in DOMAIN current_anomalies :
        /\ sv \in Services
        /\ DOMAIN current_anomalies[sv] # {}
        /\ \A m \in DOMAIN current_anomalies[sv] :
              /\ m \in MetricsOf(sv)
              /\ current_anomalies[sv][m].duration \in 1..MaxDuration

\* a batch that removed one entry of a service and left another
C30_Witness ==
    \E sv \in DOMAIN current_anomalies :
        \E m \in MetricsOf(sv) \ DOMAIN current_anomalies[sv] :
            /\ <<sv, m>> \in DOMAIN data
            /\ data[<<sv, m>>] \notin NormalValues(<<sv, m>>)

(***************************************************************************)
(* Properties of the remediation engine.                                   *)
(***************************************************************************)
HasTemplate(anomaly) ==
    /\ anomaly.metric \in DOMAIN action_templates
    /\ anomaly.severity \in DOMAIN action_templates[anomaly.metric]

\* C14 (as claimed): remediate never returns None for a well-formed
\* anomaly; with no template for its metric and severity it returns a
\* record with a generic action.
C14_RemediationFallback ==
    remCall.op = "remediate" =>
        /\ remCall.outcome = "record"
        /\ remCall.record.action.template # ""

\* C16: for an anomaly with a template, when the advisory call raises,
\* remediate returns a record with the action the template renders, the
\* one it gives with the advisory feature off, and with no suggestion.
C16_AdvisoryNeverBlocks ==
    remCall.op = "remediate" /\ HasTemplate(remCall.given)
        /\ (~remCall.use_gpt \/ remCall.advisory = "raises")
    => /\ remCall.outcome = "record"
       /\ remCall.record.action
             = Render(action_templates[remCall.given.metric][remCall.given.severity],
                      remCall.given.service)
       /\ remCall.record.gpt_suggestion = None

\* a remediate of an engine with the feature on whose advisory call raised
C16_Witness ==
    /\ remCall.op = "remediate"
    /\ remCall.use_gpt
    /\ remCall.advisory = "raises"
    /\ HasTemplate(remCall.given)
    /\ remCall.outcome = "record"

\* C17 (as claimed): the anomaly of a returned record stays the anomaly
\* remediate was given, whatever is done later to the dict that was passed
\* in.
C17_RecordHoldsAnomalyByValue ==
    remCall.outcome = "record" => objects[remCall.record.anomaly] = remCall.given

\* C21 (as claimed): of two remediate calls in a row for anomalies of one
\* (service, metric, severity), made with the advisory feature on, the
\* second makes no API call when the first got a suggestion, and attaches
\* that suggestion.
C21_EngineReusesSuggestion ==
    [][/\ remCall.op = "remediate" /\ remCall'.op = "remediate"
       /\ remCall' # remCall
       /\ remCall.use_gpt /\ remCall'.use_gpt
       /\ remCall.api_calls = 1 /\ remCall.advisory = "answers"
       /\ remCall'.given.service = remCall.given.service
       /\ remCall'.given.metric = remCall.given.metric
       /\ remCall'.given.severity = remCall.given.severity
       => /\ remCall'.api_calls = 0
          /\ remCall'.outcome = "record" =>
                remCall'.record.gpt_suggestion = get_gpt_suggestion(remCall.advisory)]_vars


(***************************************************************************)
(* Properties of the advisory cache.                                       *)
(***************************************************************************)
\* C15 (as claimed): of two requests with the same key that began less
\* than the TTL apart, the first of which got its suggestion from the API,
\* the second makes no API call and returns the suggestion of the first.
C15_AdvisoryCache ==
    \A i, j \in 1..Len(requests) :
        /\ i < j
        /\ requests[i].done /\ requests[j].done
        /\ requests[i].key = requests[j].key
        /\ (requests[j].at - requests[i].at) * TickSeconds < cache_ttl
        /\ requests[i].called /\ requests[i].result.success
        => /\ ~requests[j].called
           /\ requests[j].result = requests[i].result

(***************************************************************************)
(* Properties of the anomaly detector.                                     *)
(***************************************************************************)
HasModel(p) == p[1] \in DOMAIN models /\ p[2] \in DOMAIN models[p[1]]
HasCache(p) == p[1] \in DOMAIN training_data /\ p[2] \in DOMAIN training_data[p[1]]
TrainedOn(p, values) ==
    /\ HasModel(p) /\ models[p[1]][p[2]] = values
    /\ HasCache(p) /\ training_data[p[1]][p[2]] = values
Rank(severity) == CASE severity = "low" -> 1 [] severity = "medium" -> 2 [] OTHER -> 3

\* z > threshold for z = |value - mean| / std over the values (0 when std
\* is 0), the threshold in tenths
ZOver(values, value, threshold) ==
    LET n == Len(values)
        variance == n * SumSq(values) - Sum(values) * Sum(values)
        distance == Abs(n * value - Sum(values))
    IN  IF variance = 0
        THEN 0 > threshold
        ELSE 100 * distance * distance > threshold * threshold * variance

Grade(values, value) ==
    CASE ZOver(values, value, severity_thresholds.high) -> "high"
      [] /\ ZOver(values, value, severity_thresholds.medium)
         /\ ~ZOver(values, value, severity_thresholds.high) -> "medium"
      [] OTHER -> "low"

\* C11 (as claimed): after train(samples) a group has a model fitted on its
\* samples by the call, and its values cached, iff it has at least 10
\* samples, whatever the sizes of the other groups.
C11_TrainingGate ==
    detCall.op = "train" =>
        \A p \in DetPairs :
            Len(detCall.data[p]) >= MinSamples <=> TrainedOn(p, detCall.data[p])

\* C12: for a trained pair and thresholds with medium <= high, a value no
\* nearer to the training mean than another is graded no lower than it, in
\* the order low < medium < high.
C12_SeverityMonotone ==
    \A p \in Entries(training_data) : \A v1, v2 \in DetValues :
        LET values == training_data[p[1]][p[2]]
        IN  /\ severity_thresholds.medium <= severity_thresholds.high
            /\ Abs(Len(values) * v1 - Sum(values)) <= Abs(Len(values) * v2 - Sum(values))
            => Rank(calculate_severity(p[1], p[2], v1))
                  <= Rank(calculate_severity(p[1], p[2], v2))

\* a detect that graded a value 9 below the training mean high
C12_Witness ==
    /\ detCall.op = "detect"
    /\ \E a \in detCall.anomalies :
          /\ Sum(training_data[a.service][a.metric])
                = 30 * Len(training_data[a.service][a.metric])
          /\ a.value = 21
          /\ a.severity = "high"

\* C13: the grade of a value is high iff its z-score over the cached
\* training values is above the high threshold, medium iff it is above the
\* medium threshold and not above the high one, and low otherwise; a
\* sudden_spike of factor 1 on the baseline 30 gives 60, and 60 is graded
\* high against training values of mean 30 and deviation 3 with the high
\* threshold 2.5.
C13_SeverityByZScore ==
    /\ \A p \in Entries(training_data) : \A v \in DetValues :
          calculate_severity(p[1], p[2], v) = Grade(training_data[p[1]][p[2]], v)
    /\ \A a \in detCall.anomalies :
          a.severity = Grade(training_data[a.service][a.metric], a.value)
    /\ PatternValue("sudden_spike", Baseline("api", "cpu_usage"), 10) = 60 * 40
    /\ \A p \in Entries(training_data) :
          LET values == training_data[p[1]][p[2]]
          IN  /\ Sum(values) = 30 * Len(values)
              /\ spread(values) = (3 * Len(values)) * (3 * Len(values))
              /\ severity_thresholds.high = 25
              => calculate_severity(p[1], p[2], 60) = "high"

\* a detect that graded 60 against training values of mean 30 and
\* deviation 3
C13_Witness ==
    /\ detCall.op = "detect"
    /\ severity_thresholds.high = 25
    /\ \E a \in detCall.anomalies :
          /\ training_data[a.service][a.metric] = Bimodal(MinSamples)
          /\ a.value = 60
          /\ a.severity = "high"

\* C18 (as claimed): whatever tracking call fails in it, train(samples)
\* leaves the models and the cached values as it does when tracking
\* succeeds.
C18_TrackingOptionalForTraining ==
    [][detCall'.op = "train" =>
          LET ok == train_run(models, training_data, detCall'.data, NoFailure)
          IN  /\ models' = ok.models
              /\ training_data' = ok.training_data]_vars

\* C20 (as claimed): whatever tracking call fails in it, detect(batch)
\* returns to its caller, with the anomalies it collected.
C20_DetectSurvivesTracking ==
    detCall.op = "detect" =>
        /\ detCall.outcome = "anomalies"
        /\ detCall.anomalies = detected(detCall.data, detCall.oracle)

\* the model and the cached values of a pair, <<>> where it has none
PairState(ms, td, p) ==
    [model |-> IF p[1] \in DOMAIN ms /\ p[2] \in DOMAIN ms[p[1]]
               THEN ms[p[1]][p[2]] ELSE <<>>,
     cache |-> IF p[1] \in DOMAIN td /\ p[2] \in DOMAIN td[p[1]]
               THEN td[p[1]][p[2]] ELSE <<>>]

\* C22 (as claimed): no train and no detect removes the model of a pair; a
\* train whose data has fewer than 10 samples of a pair leaves the pair's
\* model and cached values as they are, and one with at least 10 replaces
\* both by the model fitted on, and the values of, its data.
C22_PairLifecycle ==
    [][\A p \in DetPairs :
          /\ HasModel(p) => HasModel(p)'
          /\ (detCall'.op = "train" /\ Len(detCall'.data[p]) < MinSamples)
                => PairState(models', training_data', p)
                      = PairState(models, training_data, p)
          /\ (detCall'.op = "train" /\ Len(detCall'.data[p]) >= MinSamples)
                => PairState(models', training_data', p)
                      = [model |-> detCall'.data[p], cache |-> detCall'.data[p]]]_vars

\* C29 (as claimed): after any sequence of train calls, failed ones
\* included, a pair has cached values iff it has a model, and the cached
\* values are the values its model was fitted on.
C29_ModelAndCacheInStep ==
    \A p \in DetPairs :
        /\ HasCache(p) <=> HasModel(p)
        /\ HasModel(p) => training_data[p[1]][p[2]] = models[p[1]][p[2]]

\* the pairs of a detect's batch whose prediction raised, and the batch
\* and the predictions without them
Failing(rows, oracle) == {q \in PairsIn(rows) : oracle[q] = "raises"}
WithoutRows(rows, pairs) ==
    SelectSeq(rows, LAMBDA r : <<r.service, r.metric>> \notin pairs)
Without(f, pairs) == [q \in DOMAIN f \ pairs |-> f[q]]

LastOf(rows, p) ==
    CHOOSE i \in DOMAIN rows :
        /\ <<rows[i].service, rows[i].metric>> = p
        /\ \A j \in DOMAIN rows : <<rows[j].service, rows[j].metric>> = p => j <= i

\* C24: the anomalies of a detect are of different pairs, each of a pair
\* that has a model and a sample in the batch, with the value and the
\* timestamp of the pair's last sample and a severity of low, medium or
\* high; and detect changes neither the models nor the cached values.
C24_AnomaliesOfDetect ==
    /\ [](detCall.op = "detect" =>
            /\ \A a, b \in detCall.anomalies :
                  a.service = b.service /\ a.metric = b.metric => a = b
            /\ \A a \in detCall.anomalies :
                  LET p == <<a.service, a.metric>>
                  IN  /\ HasModel(p)
                      /\ p \in PairsIn(detCall.data)
                      /\ a.value = detCall.data[LastOf(detCall.data, p)].value
                      /\ a.timestamp = detCall.data[LastOf(detCall.data, p)].timestamp
                      /\ a.severity \in Severities)
    /\ [][detCall'.op = "detect" => UNCHANGED <<models, training_data>>]_vars

\* a detect that returned an anomaly of a pair with two samples in the batch
C24_Witness ==
    /\ detCall.op = "detect"
    /\ \E a \in detCall.anomalies :
          \E i, j \in DOMAIN detCall.data :
              /\ i < j
              /\ <<detCall.data[i].service, detCall.data[i].metric>> = <<a.service, a.metric>>
              /\ <<detCall.data[j].service, detCall.data[j].metric>> = <<a.service, a.metric>>
              /\ detCall.data[i].value # detCall.data[j].value

(***************************************************************************)
(* Properties of the main program.                                         *)
(***************************************************************************)
\* C25 (as claimed): in an iteration of the monitoring loop every sample of
\* the batch generate_metrics_batch returned is produced to 'metrics', in
\* order, and detect is called; and an anomaly is produced to 'anomalies'
\* before its record is produced to 'remediation'.
C25_LoopProducesAndDetects ==
    mainLog.op = "iteration" =>
        /\ Len(mainLog.produced) >= Len(mainLog.batch)
        /\ \A i \in 1..Len(mainLog.batch) :
              mainLog.produced[i] = <<"metrics", mainLog.batch[i]>>
        /\ mainLog.batch # <<>> => mainLog.detect_called
        /\ \A i, j \in 1..Len(mainLog.produced) :
              /\ mainLog.produced[i][1] = "remediation"
              /\ mainLog.produced[j][1] = "anomalies"
              /\ mainLog.produced[i][2].anomaly = mainLog.produced[j][2]
              => j < i

\* C26 (as claimed): the Train Models step is given the list Initialize
\* Data returned, and when the monitoring loop begins every pair with at
\* least 10 samples in that list has a model.
C26_TrainedBeforeLoop ==
    /\ mainLog.op = "train_models" => mainLog.received = steps[1].result
    /\ mainPc = "loop" =>
          \A p \in DetPairs :
              Len(GroupsOf(steps[1].result.list)[p]) >= MinSamples => HasModel(p)

====
